---- MODULE Spec2Model ----
(***************************************************************************)
(* State-machine model of gradio_wan.py: the ComfyUI workflow runner       *)
(* run_comfyui_workflow (a generator that uploads files, patches a copy of *)
(* a workflow template, submits it, polls /history and downloads one       *)
(* output), together with the template store WORKFLOWS.                    *)
(*                                                                         *)
(* Python values are tagged records so that values of different Python     *)
(* types can be compared: StrV(s), IntV(n) and NoneV.  Dict keys handed to *)
(* update_node are tagged the same way (a str key or an int key).          *)
(* File names are sequences of one-character strings so that               *)
(* str.lower() and str.endswith() are computed, not assumed.               *)
(*                                                                         *)
(* A job is one run of the generator; a step of it ends at a yield, where  *)
(* the generator is suspended and the caller may close it, or at an HTTP   *)
(* call.  out[j] and net[j] record what job j yielded and what it asked    *)
(* the remote, with the raw answers.  The specifications share the actions *)
(* and differ in the inputs they draw: Spec (one caller, every call and    *)
(* response), SpecConc (interleaved jobs), SpecSelect (the output          *)
(* selection over every outputs mapping of the model), SpecPatch (the      *)
(* patcher over every node and key of the model), SpecClose (a caller who  *)
(* closes the generator) and SpecLoad (load_workflows over the directories *)
(* of the model, then a call).                                             *)
(***************************************************************************)
EXTENDS Integers, Sequences, FiniteSets, TLC

\* ---------------------------------------------------------------- values

\* An int is hi * SeedBase + n (a seed does not fit the 32-bit integers
\* of TLC).
SeedBase == 1000000

StrV(s) == [kind |-> "str", s |-> s, n |-> 0, hi |-> 0]
IntV(n) == [kind |-> "int", s |-> "", n |-> n, hi |-> 0]
BigV(hi, lo) == [kind |-> "int", s |-> "", n |-> lo, hi |-> hi]
NoneV == [kind |-> "none", s |-> "", n |-> 0, hi |-> 0]

\* A field key of an assignment: a name (str) or a position (int).
KeyS(name) == [kind |-> "str", name |-> name, idx |-> 0]
KeyI(i) == [kind |-> "int", name |-> "", idx |-> i]

\* `key in d` for a dict loaded from JSON (its keys are strings).
KeyIn(key, d) == key.kind = "str" /\ key.name \in DOMAIN d

\* d[k] = v for a dict: overwrite, or insert when the key is new.
DictSet(d, k, v) == [x \in (DOMAIN d) \cup {k} |-> IF x = k THEN v ELSE d[x]]

\* ----------------------------------------------------------------- nodes

\* A node record of a template.  hasInputs: the node has an "inputs" dict.
\* wvKind: "absent" (no "widgets_values"), "list" or "dict".
\* class_type "" stands for a node without a class_type (node.get default).
Node(ct, hasIn, ins, wvk, wvl, wvd) ==
    [class_type |-> ct, hasInputs |-> hasIn, inputs |-> ins,
     wvKind |-> wvk, wvList |-> wvl, wvDict |-> wvd]

EmptyDict == [x \in {} |-> NoneV]

\* A template without nodes ({} in JSON), and WORKFLOWS of line 17.
EmptyTemplate == [x \in {} |-> Node("", FALSE, EmptyDict, "absent", <<>>, EmptyDict)]
EmptyStore == [x \in {} |-> EmptyTemplate]

LoaderTypes == {"LoadVideo", "LoadImage", "VHS_LoadVideo"}

\* The outcome of one update_node call: the patched workflow and whether
\* the call raised (IndexError of a list assignment).
Patched(wf, raised) == [wf |-> wf, raised |-> raised]

\* A slip: no return at line 75, the loader falls through to the sections
\* 2 and 3.
LoaderStepNoReturn(node, key, val) ==
    IF node.class_type \in LoaderTypes /\ node.wvKind = "list"
       /\ Len(node.wvList) > 0
    THEN [node |-> [node EXCEPT !.wvList[1] = val], ret |-> FALSE]
    ELSE [node |-> node, ret |-> FALSE]

\* Section 1 of update_node (loaders).  Returns [node, ret] where ret says
\* that the function returned at line 75.
LoaderStep(node, key, val) ==
    IF node.class_type \notin LoaderTypes THEN [node |-> node, ret |-> FALSE]
    ELSE IF node.wvKind = "list" /\ Len(node.wvList) > 0
    THEN [node |-> [node EXCEPT !.wvList[1] = val], ret |-> TRUE]
    ELSE IF ~node.hasInputs THEN [node |-> node, ret |-> FALSE]
    ELSE LET tgt == IF KeyIn(key, node.inputs) THEN key.name
                    ELSE IF "video" \in DOMAIN node.inputs THEN "video"
                    ELSE IF "image" \in DOMAIN node.inputs THEN "image"
                    ELSE IF "file" \in DOMAIN node.inputs THEN "file"
                    ELSE ""
         IN  [node |-> IF tgt = "" THEN node
                       ELSE [node EXCEPT !.inputs[tgt] = val],
              ret |-> FALSE]

\* Section 2 of update_node (named inputs, API format).
InputsStep(node, key, val) ==
    IF node.hasInputs /\ KeyIn(key, node.inputs)
    THEN [node EXCEPT !.inputs[key.name] = val]
    ELSE node

\* A slip: the text of every class_type is taken to live at position 0.
TextTargetZero(ctype) == 0

\* The target of the "text" key in a widgets list.
TextTarget(ctype) == IF ctype = "WanVideoTextEncodeCached" THEN 2 ELSE 0

\* Section 3 of update_node (widgets_values).  Returns [node, raised].
\* Python list assignment wv[key] = val: a negative key counts from the
\* end, and a key below -len(wv) raises IndexError.
WidgetsStep(node, key, val) ==
    IF node.wvKind = "list"
    THEN LET n == Len(node.wvList) IN
         IF key.kind = "int"
         THEN IF key.idx < n
              THEN IF key.idx >= 0
                   THEN [node |-> [node EXCEPT !.wvList[key.idx + 1] = val],
                         raised |-> FALSE]
                   ELSE IF key.idx >= -n
                   THEN [node |-> [node EXCEPT !.wvList[n + key.idx + 1] = val],
                         raised |-> FALSE]
                   ELSE [node |-> node, raised |-> TRUE]
              ELSE [node |-> node, raised |-> FALSE]
         ELSE IF key = KeyS("text")
         THEN LET tgt == TextTarget(node.class_type) IN
              IF tgt < n
              THEN [node |-> [node EXCEPT !.wvList[tgt + 1] = val],
                    raised |-> FALSE]
              ELSE [node |-> node, raised |-> FALSE]
         ELSE [node |-> node, raised |-> FALSE]
    ELSE IF node.wvKind = "dict"
    THEN IF KeyIn(key, node.wvDict)
         THEN [node |-> [node EXCEPT !.wvDict[key.name] = val], raised |-> FALSE]
         ELSE IF key = KeyS("video")
         THEN [node |-> [node EXCEPT !.wvDict = DictSet(node.wvDict, "video", val)],
               raised |-> FALSE]
         ELSE [node |-> node, raised |-> FALSE]
    ELSE [node |-> node, raised |-> FALSE]

\* A slip: workflow[nid] is read without the test of line 66 (KeyError).
MissingNodeRaises(wf) == Patched(wf, TRUE)

\* Line 66: `if nid not in workflow: return`.
OnMissingNode(wf) == Patched(wf, FALSE)

\* update_node(nid, key, val) on the workflow wf (a function node id -> node).
update_node(wf, nid, key, val) ==
    IF nid \notin DOMAIN wf THEN OnMissingNode(wf)
    ELSE LET s1 == LoaderStep(wf[nid], key, val) IN
         IF s1.ret THEN Patched([wf EXCEPT ![nid] = s1.node], FALSE)
         ELSE LET s2 == InputsStep(s1.node, key, val)
                  s3 == WidgetsStep(s2, key, val)
              IN  Patched([wf EXCEPT ![nid] = s3.node], s3.raised)

\* The two loops "Apply Inputs" / "Apply Files": the assignments, a
\* sequence of [nid, key, val] in dict iteration order, applied in order;
\* the first call that raises ends the loop.
RECURSIVE ApplyAll(_, _)
ApplyAll(wf, assigns) ==
    IF assigns = <<>> THEN Patched(wf, FALSE)
    ELSE LET a == Head(assigns)
             r == update_node(wf, a.nid, a.key, a.val)
         IN  IF r.raised THEN r ELSE ApplyAll(r.wf, Tail(assigns))

\* ----------------------------------------------------------------- seeds

SeedKeys == {"seed", "noise_seed"}

\* The (node id, input name) places that "Randomize Seed" overwrites.
SeedSlots(wf) ==
    {s \in (DOMAIN wf) \X SeedKeys :
        wf[s[1]].hasInputs /\ s[2] \in DOMAIN wf[s[1]].inputs}

\* A slip: the seeds are left as the template has them.
NoRandomize(wf, draw) == wf

\* The loop of lines 111-115 with the draws random.randint returned, one
\* <<hi, lo>> per place.
RandomizeSeed(wf, draw) ==
    [nid \in DOMAIN wf |->
        [wf[nid] EXCEPT !.inputs =
            [k \in DOMAIN wf[nid].inputs |->
                IF wf[nid].hasInputs /\ <<nid, k>> \in DOMAIN draw
                THEN BigV(draw[<<nid, k>>][1], draw[<<nid, k>>][2])
                ELSE wf[nid].inputs[k]]]]

\* ------------------------------------------------------ output selection

\* str.lower() on the characters file names are built from.
UpperAlpha ==
    <<"A", "B", "C", "D", "E", "F", "G", "H", "I", "J", "K", "L", "M",
      "N", "O", "P", "Q", "R", "S", "T", "U", "V", "W", "X", "Y", "Z">>
LowerAlpha ==
    <<"a", "b", "c", "d", "e", "f", "g", "h", "i", "j", "k", "l", "m",
      "n", "o", "p", "q", "r", "s", "t", "u", "v", "w", "x", "y", "z">>

LowerChar(c) ==
    IF \E i \in 1..Len(UpperAlpha) : UpperAlpha[i] = c
    THEN LowerAlpha[CHOOSE i \in 1..Len(UpperAlpha) : UpperAlpha[i] = c]
    ELSE c

Lower(s) == [i \in 1..Len(s) |-> LowerChar(s[i])]

\* str.endswith(suffix)
EndsWith(s, suf) ==
    /\ Len(suf) <= Len(s)
    /\ SubSeq(s, Len(s) - Len(suf) + 1, Len(s)) = suf

VideoExts ==
    { <<".", "m", "p", "4">>, <<".", "m", "o", "v">>,
      <<".", "w", "e", "b", "m">>, <<".", "m", "k", "v">>,
      <<".", "g", "i", "f">> }

\* is_video(fname), lines 155-156
is_video(fname) == \E e \in VideoExts : EndsWith(Lower(fname), e)

\* The buckets of a node's output, in the order the scan visits them.
Buckets == <<"videos", "gifs", "files", "images">>

\* An output item of the /history response.
Item(fn, sub, ty) == [filename |-> fn, subfolder |-> sub, type |-> ty]

\* target_file / best_candidate: None, or an item.
NoneItem == [some |-> FALSE, item |-> Item(<<>>, "", "")]
SomeItem(it) == [some |-> TRUE, item |-> it]

\* The scan state: target_file and best_candidate.
Scan(target, best) == [target |-> target, best |-> best]

\* A slip: `elif not best_candidate` is dropped, the backup is the last
\* item seen.
RECURSIVE ScanItemsKeepLast(_, _)
ScanItemsKeepLast(items, st) ==
    IF items = <<>> THEN st
    ELSE LET item == Head(items) IN
         IF is_video(item.filename) THEN Scan(SomeItem(item), st.best)
         ELSE ScanItemsKeepLast(Tail(items), Scan(st.target, SomeItem(item)))

\* The loop over one bucket's list, lines 162-168: stops at the first
\* video; otherwise keeps the first item as best_candidate.
RECURSIVE ScanItems(_, _)
ScanItems(items, st) ==
    IF items = <<>> THEN st
    ELSE LET item == Head(items) IN
         IF is_video(item.filename) THEN Scan(SomeItem(item), st.best)
         ELSE ScanItems(Tail(items),
                        IF ~st.best.some THEN Scan(st.target, SomeItem(item))
                        ELSE st)

\* The loop over the buckets of one node, lines 160-169: b is the index of
\* the next bucket.
RECURSIVE ScanBuckets(_, _, _)
ScanBuckets(content, b, st) ==
    IF b > Len(Buckets) THEN st
    ELSE LET st2 == IF Buckets[b] \in DOMAIN content
                    THEN ScanItems(content[Buckets[b]], st) ELSE st
         IN  IF st2.target.some THEN st2 ELSE ScanBuckets(content, b + 1, st2)

\* The loop over the nodes of outputs, lines 159-170.  outputs is the
\* sequence of [nid, content] in the order of the response.
RECURSIVE ScanNodes(_, _)
ScanNodes(outputs, st) ==
    IF outputs = <<>> THEN st
    ELSE LET st2 == ScanBuckets(Head(outputs).content, 1, st) IN
         IF st2.target.some THEN st2 ELSE ScanNodes(Tail(outputs), st2)

\* A slip: the backup is preferred to the video.
SelectOutputBackupFirst(outputs) ==
    LET st == ScanNodes(outputs, Scan(NoneItem, NoneItem)) IN
    IF st.best.some THEN st.best ELSE st.target

\* Lines 151-174: the item to download, or None.
SelectOutput(outputs) ==
    LET st == ScanNodes(outputs, Scan(NoneItem, NoneItem)) IN
    IF ~st.target.some THEN st.best ELSE st.target

\* ------------------------------------------------------------ the inputs

\* Bounds of the model.
NumJobs == 2
MaxCalls == 2
MaxTicks == 2

Jobs == 1..NumJobs

A(nid, key, val) == [nid |-> nid, key |-> key, val |-> val]
F(nid, param, path) == [nid |-> nid, param |-> param, path |-> path]

NoWv == <<>>

\* The templates load_workflows registered from the workflows directory.
LoadedTemplates ==
    [n \in {"t2v", "I2V_hq_lowvram(USING)", "FIRST2LAST_frame"} |->
      CASE n = "t2v" ->
             [nid \in {"89", "3"} |->
               IF nid = "89"
               THEN Node("WanVideoTextEncodeCached", TRUE,
                         [text |-> StrV("old")], "list",
                         <<StrV("umt5"), StrV("bf16"), StrV("old")>>, EmptyDict)
               ELSE Node("KSampler", TRUE,
                         [seed |-> IntV(7), steps |-> IntV(20)],
                         "absent", NoWv, EmptyDict)]
        [] n = "I2V_hq_lowvram(USING)" ->
             [nid \in {"6", "88", "3"} |->
               IF nid = "6"
               THEN Node("CLIPTextEncode", TRUE, [text |-> StrV("old")],
                         "absent", NoWv, EmptyDict)
               ELSE IF nid = "88"
               THEN Node("LoadImage", TRUE, [image |-> StrV("example.png")],
                         "list", <<StrV("example.png"), StrV("image")>>,
                         EmptyDict)
               ELSE Node("SamplerCustom", TRUE, [noise_seed |-> IntV(7)],
                         "dict", NoWv, [cfg |-> IntV(1)])]
        [] OTHER ->
             [nid \in {"6", "68", "62"} |->
               IF nid = "6"
               THEN Node("CLIPTextEncode", FALSE, EmptyDict,
                         "list", <<StrV("old")>>, EmptyDict)
               ELSE IF nid = "68"
               THEN Node("LoadImage", TRUE, [image |-> StrV("first.png")],
                         "absent", NoWv, EmptyDict)
               ELSE Node("LoadImage", TRUE,
                         [upload |-> StrV("image"), file |-> StrV("last.png")],
                         "absent", NoWv, EmptyDict)]]

\* A local path handed to the runner: a readable file, a path that cannot
\* be opened, or None.
Paths == {"readable", "unreadable", "None"}

CallArgs(name, inputs, files) ==
    [name |-> name, inputs_map |-> inputs, files_map |-> files]

\* run_text_to_video
TextToVideo ==
    CallArgs("t2v", <<A("89", KeyS("text"), StrV("prompt"))>>, <<>>)

\* run_image_to_video
ImageToVideo(p) ==
    CallArgs("I2V_hq_lowvram(USING)",
             <<A("6", KeyS("text"), StrV("prompt")),
               A("245", KeyS("crop"), StrV("disabled"))>>,
             <<F("88", "image", p)>>)

\* run_img_to_img_video
ImgToImgVideo(p1, p2) ==
    CallArgs("FIRST2LAST_frame",
             <<A("6", KeyS("text"), StrV("prompt"))>>,
             <<F("68", "image", p1), F("62", "image", p2)>>)

\* run_remove_bg, whose template is not in the directory
RemoveBg(p) == CallArgs("remove_bg", <<>>, <<F("1", "video", p)>>)

\* A direct call with a positional key below the start of the list.
Positional(i) ==
    CallArgs("t2v", <<A("89", KeyI(i), StrV("prompt")),
                      A("3", KeyS("seed"), IntV(42))>>, <<>>)

\* A direct call that uploads a file for the seed of the sampler.
SeedUpload == CallArgs("t2v", <<>>, <<F("3", "seed", "readable")>>)

\* The calls of the runner the model draws from.
Calls ==
    {TextToVideo, RemoveBg("readable"), Positional(-4), Positional(-1),
     SeedUpload}
    \cup {ImageToVideo(p) : p \in Paths \ {"None"}}
    \cup {ImgToImgVideo("readable", p) : p \in Paths}
    \cup {ImgToImgVideo("None", "readable")}

\* The calls of the specification of concurrent jobs.
ConcCalls == {TextToVideo, ImageToVideo("readable"), Positional(-4)}

\* The nodes the patcher is run on: every class_type, named inputs and
\* widgets_values below, in a template "w" with the one node "1".
PatchClasses ==
    {"LoadImage", "VHS_LoadVideo", "CLIPTextEncode", "WanVideoTextEncodeCached"}
PatchInputs ==
    {[hasIn |-> FALSE, ins |-> EmptyDict],
     [hasIn |-> TRUE, ins |-> [image |-> StrV("old.png")]],
     [hasIn |-> TRUE, ins |-> [text |-> StrV("old"), file |-> StrV("old.bin")]]}
PatchWidgets ==
    {[kind |-> "absent", l |-> NoWv, d |-> EmptyDict],
     [kind |-> "list", l |-> <<>>, d |-> EmptyDict],
     [kind |-> "list", l |-> <<StrV("w0")>>, d |-> EmptyDict],
     [kind |-> "list", l |-> <<StrV("w0"), StrV("w1"), StrV("w2")>>,
      d |-> EmptyDict],
     [kind |-> "dict", l |-> NoWv, d |-> [cfg |-> IntV(1)]]}
PatchNodes ==
    {Node(c, i.hasIn, i.ins, w.kind, w.l, w.d) :
        c \in PatchClasses, i \in PatchInputs, w \in PatchWidgets}
PatchStores == {[n \in {"w"} |-> [nid \in {"1"} |-> node]] : node \in PatchNodes}

\* The field keys handed to the patcher: names and positions.
PatchKeys ==
    {KeyS("image"), KeyS("text"), KeyS("path"), KeyS("video"),
     KeyI(-4), KeyI(-1), KeyI(0), KeyI(1), KeyI(2), KeyI(3)}

\* Direct calls of the runner on the template "w": one assignment to the
\* node "1"; an upload for it; assignments and an upload for a node "2"
\* that the template does not have.
PatchCalls ==
    {CallArgs("w", <<A("1", k, StrV("new"))>>, <<>>) : k \in PatchKeys}
    \cup {CallArgs("w", <<>>, <<F("1", "image", "readable")>>),
          CallArgs("w", <<A("2", KeyI(0), StrV("new"))>>, <<>>),
          CallArgs("w", <<A("2", KeyS("text"), StrV("other")),
                          A("1", KeyS("text"), StrV("new"))>>,
                   <<F("2", "image", "readable")>>)}

\* A slip: random.randint(0, 10 ** 12).
SeedSamplesFromZero == {<<0, 0>>, <<SeedBase, 0>>}

\* random.randint(1, 10 ** 12): the draws <<hi, lo>> the model takes, the
\* two ends of the range (randint returns a <= r <= b, both ends included).
SeedSamples == {<<0, 1>>, <<SeedBase, 0>>}

\* ------------------------------------------------------- the directory

\* File names of the workflows directory, as characters.
T2vJson == <<"t", "2", "v", ".", "j", "s", "o", "n">>
I2vJson ==
    <<"I", "2", "V", "_", "h", "q", "_", "l", "o", "w", "v", "r", "a", "m",
      "(", "U", "S", "I", "N", "G", ")", ".", "j", "s", "o", "n">>
First2LastJson ==
    <<"F", "I", "R", "S", "T", "2", "L", "A", "S", "T", "_", "f", "r", "a",
      "m", "e", ".", "j", "s", "o", "n">>
WJson == <<"w", ".", "j", "s", "o", "n">>
DotJson == <<".", "j", "s", "o", "n">>
DotJsonJson == <<".", "j", "s", "o", "n", ".", "j", "s", "o", "n">>
ABJson == <<"a", ".", "b", ".", "j", "s", "o", "n">>
T2vUpper == <<"t", "2", "v", ".", "J", "S", "O", "N">>
Readme == <<"r", "e", "a", "d", "m", "e">>

\* ".json", the suffix of line 208.
JsonSuffix == <<".", "j", "s", "o", "n">>

\* os.path.splitext(filename)[0] for a name without a separator: the name
\* up to its last dot, or the whole name when it has no dot or nothing
\* but dots before the last one.
SplitextRoot(name) ==
    LET dots == {i \in 1..Len(name) : name[i] = "."} IN
    IF dots = {} THEN name
    ELSE LET d == CHOOSE i \in dots : \A k \in dots : k <= i IN
         IF \E k \in 1..(d - 1) : name[k] # "." THEN SubSeq(name, 1, d - 1)
         ELSE name

\* The str made of the characters cs, for the keys of WORKFLOWS.
StrOf(cs) ==
    CASE cs = <<"t", "2", "v">>
           -> "t2v"
      [] cs = <<"I", "2", "V", "_", "h", "q", "_", "l", "o", "w",
                "v", "r", "a", "m", "(", "U", "S", "I", "N", "G", ")">>
           -> "I2V_hq_lowvram(USING)"
      [] cs = <<"F", "I", "R", "S", "T", "2", "L", "A",
                "S", "T", "_", "f", "r", "a", "m", "e">>
           -> "FIRST2LAST_frame"
      [] cs = <<"w">>
           -> "w"
      [] cs = <<".", "j", "s", "o", "n">>
           -> ".json"
      [] cs = <<"a", ".", "b">>
           -> "a.b"

\* A directory entry: its name, whether open() and json.load() succeed on
\* it, and what json.load() returns.
DirFile(name, ok, content) == [name |-> name, ok |-> ok, content |-> content]

\* A directory: whether it exists, and os.listdir() of it, in its order.
Dir(exists, files) == [exists |-> exists, files |-> files]

\* The directory the templates of LoadedTemplates were loaded from.
WorkflowsDir ==
    Dir(TRUE, <<DirFile(T2vJson, TRUE, LoadedTemplates["t2v"]),
                DirFile(I2vJson, TRUE, LoadedTemplates["I2V_hq_lowvram(USING)"]),
                DirFile(First2LastJson, TRUE,
                        LoadedTemplates["FIRST2LAST_frame"])>>)

\* The most entries a directory of the model has.
MaxFiles == 2

\* The entries directories are made of: names that end in ".json", each
\* unreadable or holding one of two templates, and names that do not.
DirFiles ==
    UNION { {DirFile(n, FALSE, EmptyTemplate),
             DirFile(n, TRUE, LoadedTemplates["t2v"]),
             DirFile(n, TRUE, EmptyTemplate)}
            : n \in {T2vJson, DotJson, DotJsonJson, ABJson} }
    \cup {DirFile(n, TRUE, LoadedTemplates["t2v"]) : n \in {T2vUpper, Readme}}

\* The listings of up to MaxFiles entries: a name is listed once.
Listings ==
    UNION { {l \in [1..n -> DirFiles] :
                \A a, b \in 1..n : a # b => l[a].name # l[b].name}
            : n \in 0..MaxFiles }

\* The directories load_workflows is run on: none, and every listing.
Directories ==
    {Dir(FALSE, <<>>), WorkflowsDir} \cup {Dir(TRUE, l) : l \in Listings}

\* ---------------------------------------------------------- the remote

\* A response to POST /upload/image: "raise" (the call raised or timed
\* out), "non200", "badjson" (status 200, body not JSON) or "ok" with the
\* name the remote assigned.
UResp(kind, name) == [kind |-> kind, name |-> name]
UploadResps ==
    {UResp("raise", NoneV), UResp("non200", NoneV), UResp("badjson", NoneV),
     UResp("ok", StrV("up.png"))}

\* A response to POST /prompt; prompt_id "None" is a body without one.
PResp(kind, pid) == [kind |-> kind, prompt_id |-> pid]
PromptResps ==
    {PResp("raise", "None"), PResp("non200", "None"), PResp("badjson", "None"),
     PResp("ok", "p1"), PResp("ok", "None")}

N(nid, content) == [nid |-> nid, content |-> content]
Png == <<"a", ".", "p", "n", "g">>
Mp4 == <<"b", ".", "m", "p", "4">>
UpperMp4 == <<"C", ".", "M", "P", "4">>
Txt == <<"e", ".", "m", "p", "4", ".", "t", "x", "t">>
Bare == <<"m", "p", "4">>
Gif == <<"d", ".", "G", "i", "f">>

\* What one node of an outputs mapping may hold.
NodeContents ==
    { [images |-> <<Item(Png, "", "output")>>],
      [videos |-> <<Item(Mp4, "", "output")>>],
      [images |-> <<>>, animated |-> <<>>],
      [videos |-> <<Item(Png, "", "output")>>, gifs |-> <<Item(Gif, "", "temp")>>],
      [files |-> <<Item(Bare, "", "output")>>, text |-> <<>>],
      [images |-> <<Item(Png, "", "temp"), Item(UpperMp4, "", "output")>>,
       gifs |-> <<Item(Bare, "sub", "output")>>],
      [images |-> <<Item(Png, "", "output")>>,
       files |-> <<Item(Txt, "", "output"), Item(Gif, "", "output")>>],
      [images |-> <<Item(Png, "", "output")>>,
       files |-> <<Item(Txt, "", "output"), Item(Bare, "", "output")>>] }

\* The node ids of an outputs mapping, by position.
NodeIds == <<"30", "12", "9", "41">>

\* The most nodes an outputs mapping of the model has.
MaxNodes == 2

\* The outputs mappings of up to MaxNodes nodes: sequences of
\* [nid, content] in the order of the response.
AllOutputs ==
    UNION { { [i \in 1..n |-> N(NodeIds[i], c[i])] : c \in [1..n -> NodeContents] }
            : n \in 0..MaxNodes }

\* The outputs mappings the remote answers a caller of the runner with.
OutputsSamples ==
    { <<>>,
      <<N("5", [images |-> <<>>]), N("7", [animated |-> <<>>])>>,
      <<N("12", [images |-> <<Item(Png, "", "output")>>]),
        N("30", [videos |-> <<Item(Mp4, "", "output")>>])>>,
      <<N("9", [images |-> <<Item(Png, "", "output")>>,
                files |-> <<Item(Txt, "", "output"), Item(Bare, "", "output")>>])>> }

\* A response to GET /history/{prompt_id}: "raise", "non200", "malformed"
\* (status 200, body not JSON) or "ok" with the ids the body holds and the
\* entry of the job (hasOutputs: the entry has an "outputs" key).
HResp(kind, ids, hasOutputs, outputs) ==
    [kind |-> kind, ids |-> ids, hasOutputs |-> hasOutputs, outputs |-> outputs]
HistoryResps ==
    {HResp("raise", {}, FALSE, <<>>), HResp("non200", {}, FALSE, <<>>),
     HResp("malformed", {}, FALSE, <<>>), HResp("ok", {}, FALSE, <<>>),
     HResp("ok", {"p1"}, FALSE, <<>>)}
    \cup {HResp("ok", {"p1"}, TRUE, o) : o \in OutputsSamples}

\* A response to GET /view: "raise", or a status; and whether the local
\* file can be written.
VResp(kind, writable) == [kind |-> kind, writable |-> writable]
ViewResps ==
    {VResp("raise", TRUE), VResp("200", TRUE), VResp("404", TRUE),
     VResp("200", FALSE)}

\* The responses of the specification of concurrent jobs.
ConcUploadResps == {UResp("ok", StrV("up.png"))}
ConcPromptResps == {PResp("ok", "p1")}
ConcHistoryResps ==
    {HResp("ok", {"p1"}, TRUE,
           <<N("30", [videos |-> <<Item(Mp4, "", "output")>>])>>)}
ConcViewResps == {VResp("200", TRUE)}

\* The responses of the specification of the output selection: the job
\* is accepted and completes with any of the outputs mappings.
SelectHistoryResps == {HResp("ok", {"p1"}, TRUE, o) : o \in AllOutputs}

\* -------------------------------------------------------------- the state

VARIABLES
    WORKFLOWS,   \* the global dict: template name -> template
    nextId,      \* the number of uuid4 values drawn, plus one
    pc,          \* per job, where its generator is: "idle" (not called),
                 \* "upload" (at the yield of line 38 or in the upload
                 \* loop), "configure" (at the yield of line 63), "submit"
                 \* (at the yield of line 118), "poll" (at the top of the
                 \* polling loop, line 135), "processing" (at the yield of
                 \* line 137), "finished" (at the yield of line 146),
                 \* "download" (line 176, target_file chosen), "final" (at
                 \* the yield of its last pair, line 31, 43, 56, 59, 123,
                 \* 127, 189, 192 or 198), "done" (returned) or "closed"
                 \* (ended by GeneratorExit)
    args,        \* per job: the arguments of the call
    client_id,   \* per job: the uuid drawn at line 26
    workflow,    \* per job: what the local name `workflow` is bound to
    uploaded,    \* per job: uploaded_filenames, as assignments in order
    prompt_id,   \* per job: the id POST /prompt returned
    history_data,\* per job: the body of the last GET /history that
                 \* answered 200 (line 144)
    target,      \* per job: target_file
    ticks,       \* per job: the iterations of the polling loop so far
    out,         \* per job: the pairs yielded so far
    net,         \* per job: the HTTP calls made so far, with their outcome
    written,     \* per job: the local files written
    drawn,       \* per job: what random.randint returned, per seed place
    posted,      \* per job: the JSON body p of its POST /prompt
    closed,      \* per job: the caller has closed the sequence
    directory,   \* the workflows directory load_workflows reads
    visited,     \* the entries of its listing the loop has handled
    loading      \* load_workflows (line 317) has not returned yet

vars == <<WORKFLOWS, nextId, pc, args, client_id, workflow, uploaded,
          prompt_id, history_data, target, ticks, out, net, written, drawn,
          posted, closed, directory, visited, loading>>

loadVars == <<directory, visited, loading>>
jobVars == <<nextId, pc, args, client_id, workflow, uploaded, prompt_id,
             history_data, target, ticks, out, net, written, drawn, posted,
             closed>>

\* A yielded pair (path or None, status).
NoPath == [some |-> FALSE, client_id |-> 0, filename |-> <<>>]
\* A slip: the local path is made of the remote file name alone.
LocalPathNoId(cid, fn) == [some |-> TRUE, client_id |-> 0, filename |-> fn]

\* os.path.join(temp_dir, f"comfy_{client_id}_{filename}")
LocalPath(cid, fn) == [some |-> TRUE, client_id |-> cid, filename |-> fn]
Pair(path, msg) == [path |-> path, msg |-> msg]
Status(msg) == Pair(NoPath, msg)

\* What the job did to the outside and what came back: an HTTP call
\* ("upload", "prompt", "history", "view") or the write of the local file
\* ("write"), with its outcome.  body is what a GET /history answered:
\* whether it held the job's id, and the outputs of its entry; item is the
\* item a GET /view asked for.
NoBody == [hasId |-> FALSE, hasOutputs |-> FALSE, outputs |-> <<>>]
Http(call, res) == [call |-> call, res |-> res, item |-> NoneItem, body |-> NoBody]
HttpHistory(resp, pid) ==
    [call |-> "history", res |-> resp.kind, item |-> NoneItem,
     body |-> [hasId |-> pid \in resp.ids, hasOutputs |-> resp.hasOutputs,
               outputs |-> resp.outputs]]
HttpView(res, it) == [call |-> "view", res |-> res, item |-> it, body |-> NoBody]

NoArgs == CallArgs("", <<>>, <<>>)
NoDraw == [x \in {} |-> <<0, 0>>]

\* The binding of the local name `workflow`: an object of the job's own
\* (own = TRUE, obj its value), or the very object stored in WORKFLOWS
\* under the job's workflow_name.
Binding(own, obj) == [own |-> own, obj |-> obj]
NoWorkflow == Binding(TRUE, EmptyTemplate)

\* Line 119: p = {"prompt": workflow, "client_id": client_id}, or nothing
\* posted yet.
NoPost == [sent |-> FALSE, prompt |-> EmptyTemplate, client_id |-> 0]
Post(wf, cid) == [sent |-> TRUE, prompt |-> wf, client_id |-> cid]

\* A slip: workflow = WORKFLOWS[name], the stored object itself.
AliasedTemplate(name) == Binding(FALSE, EmptyTemplate)

\* Line 35: json.loads(json.dumps(WORKFLOWS[name])) builds a new object
\* with the value of the template (a template loaded from JSON survives
\* the round trip unchanged).
CopyTemplate(name) == Binding(TRUE, WORKFLOWS[name])

\* The value `workflow` denotes in job j.
Deref(j) ==
    IF workflow[j].own THEN workflow[j].obj ELSE WORKFLOWS[args[j].name]

\* The patching of lines 100-115 writes through the binding of job j.
WriteWorkflow(j, wf) ==
    /\ workflow' = [workflow EXCEPT ![j] =
                      IF @.own THEN Binding(TRUE, wf) ELSE @]
    /\ WORKFLOWS' = IF workflow[j].own THEN WORKFLOWS
                    ELSE [WORKFLOWS EXCEPT ![args[j].name] = wf]

\* No job has been called yet.
InitJobs ==
    /\ nextId = 1
    /\ pc = [j \in Jobs |-> "idle"]
    /\ args = [j \in Jobs |-> NoArgs]
    /\ client_id = [j \in Jobs |-> 0]
    /\ workflow = [j \in Jobs |-> NoWorkflow]
    /\ uploaded = [j \in Jobs |-> <<>>]
    /\ prompt_id = [j \in Jobs |-> "None"]
    /\ history_data = [j \in Jobs |-> NoBody]
    /\ target = [j \in Jobs |-> NoneItem]
    /\ ticks = [j \in Jobs |-> 0]
    /\ out = [j \in Jobs |-> <<>>]
    /\ net = [j \in Jobs |-> <<>>]
    /\ written = [j \in Jobs |-> {}]
    /\ drawn = [j \in Jobs |-> NoDraw]
    /\ posted = [j \in Jobs |-> NoPost]
    /\ closed = [j \in Jobs |-> FALSE]

\* load_workflows has run on the directory dir.
Loaded(dir) ==
    /\ directory = dir
    /\ visited = Len(dir.files)
    /\ loading = FALSE

Init == WORKFLOWS = LoadedTemplates /\ Loaded(WorkflowsDir) /\ InitJobs

\* The job is suspended at the yield of its last pair: its frame, and
\* so its locals, are still there.  What the step did to target_file is
\* stated by the action.
Final(j) ==
    /\ pc' = [pc EXCEPT ![j] = "final"]
    /\ UNCHANGED <<uploaded, prompt_id, history_data, ticks>>

DropWorkflow(j) == workflow' = [workflow EXCEPT ![j] = NoWorkflow]

Yield(j, pairs) == out' = [out EXCEPT ![j] = out[j] \o pairs]
Request(j, calls) == net' = [net EXCEPT ![j] = net[j] \o calls]

\* ------------------------------------------------------------ the runner

\* A slip: the generator returns without a pair.
NotFoundSilent == <<>>

\* Lines 30-32: what a call yields for a name that is not in WORKFLOWS,
\* before it returns.
OnNotFound == <<Status("Error: Workflow not found")>>

\* Lines 26-38, up to the first yield: the call with arguments a.
Call(j, a) ==
    /\ ~loading
    /\ pc[j] = "idle"
    /\ nextId <= MaxCalls
    /\ nextId' = nextId + 1
    /\ client_id' = [client_id EXCEPT ![j] = nextId]
    /\ args' = [args EXCEPT ![j] = a]
    /\ IF a.name \notin DOMAIN WORKFLOWS
       THEN /\ Yield(j, OnNotFound)
            /\ Final(j)
            /\ UNCHANGED <<workflow, target>>
       ELSE /\ workflow' = [workflow EXCEPT ![j] = CopyTemplate(a.name)]
            /\ Yield(j, <<Status("Uploading files...")>>)
            /\ pc' = [pc EXCEPT ![j] = "upload"]
            /\ UNCHANGED <<uploaded, prompt_id, history_data, target, ticks>>
    /\ UNCHANGED <<WORKFLOWS, net, written, drawn, posted, closed>>
    /\ UNCHANGED loadVars

\* A slip: any response counts as an upload, whatever its status.
UploadOkAnyStatus(resp) == resp.kind \in {"ok", "non200"}

\* Line 50: the upload counts as done.
UploadOk(resp) == resp.kind = "ok"

\* One iteration of the upload loop, lines 41-60, for the file f and the
\* response resp (read only when the file could be opened): the HTTP calls
\* made, whether the loop goes on, and the status yielded when it does not.
UploadStep(f, resp) ==
    IF f.path = "None"
    THEN [calls |-> <<>>, ok |-> FALSE, msg |-> "Error: Missing file"]
    ELSE IF f.path = "unreadable"
    THEN [calls |-> <<>>, ok |-> FALSE, msg |-> "Upload error"]
    ELSE IF UploadOk(resp)
    THEN [calls |-> <<Http("upload", resp.kind)>>, ok |-> TRUE, msg |-> ""]
    ELSE IF resp.kind = "non200"
    THEN [calls |-> <<Http("upload", resp.kind)>>, ok |-> FALSE,
          msg |-> "Upload failed"]
    ELSE [calls |-> <<Http("upload", resp.kind)>>, ok |-> FALSE,
          msg |-> "Upload error"]

\* The next entry of files_map is handled.
UploadFile(j, resp) ==
    /\ pc[j] = "upload"
    /\ Len(uploaded[j]) < Len(args[j].files_map)
    /\ LET f == args[j].files_map[Len(uploaded[j]) + 1]
           s == UploadStep(f, resp)
       IN  /\ Request(j, s.calls)
           /\ IF s.ok
              THEN /\ uploaded' = [uploaded EXCEPT ![j] =
                        Append(@, A(f.nid, KeyS(f.param), resp.name))]
                   /\ UNCHANGED <<pc, prompt_id, history_data, target, ticks,
                                  workflow, out>>
              ELSE /\ Yield(j, <<Status(s.msg)>>)
                   /\ pc' = [pc EXCEPT ![j] = "final"]
                   /\ UNCHANGED <<uploaded, prompt_id, history_data, target,
                                  ticks, workflow>>
    /\ UNCHANGED <<WORKFLOWS, nextId, args, client_id, written, drawn, posted,
                   closed>>
    /\ UNCHANGED loadVars

\* A slip: the configuration does not wait for the end of the upload loop.
UploadsDoneEarly(files, ups) == Len(ups) <= Len(files)

\* The upload loop is over: every entry of files_map was uploaded.
UploadsDone(files, ups) == Len(ups) = Len(files)

\* A slip: the seeds are randomized before the assignments are applied.
ConfiguredSeedFirst(wf, inputs, ups, draw) ==
    LET r1 == ApplyAll(RandomizeSeed(wf, draw), inputs) IN
    IF r1.raised THEN r1 ELSE ApplyAll(r1.wf, ups)

\* Lines 100-115: apply inputs, apply files, randomize the seeds.
Configured(wf, inputs, ups, draw) ==
    LET r1 == ApplyAll(wf, inputs) IN
    IF r1.raised THEN r1
    ELSE LET r2 == ApplyAll(r1.wf, ups) IN
         IF r2.raised THEN r2
         ELSE Patched(RandomizeSeed(r2.wf, draw), FALSE)

\* A slip: no outer handler, the exception ends the generator.
NoHandler == <<>>

\* Lines 197-198: what the handler of the outer try yields.
OnException == <<Status("Error")>>

\* Lines 40-63, the end of the upload loop: with every entry of files_map
\* uploaded the job yields "Configuring workflow..." and is suspended
\* there, the workflow not yet patched.
UploadsEnd(j) ==
    /\ pc[j] = "upload"
    /\ UploadsDone(args[j].files_map, uploaded[j])
    /\ Yield(j, <<Status("Configuring workflow...")>>)
    /\ pc' = [pc EXCEPT ![j] = "configure"]
    /\ UNCHANGED <<WORKFLOWS, nextId, args, client_id, workflow, uploaded,
                   prompt_id, history_data, target, ticks, net, written, drawn,
                   posted, closed>>
    /\ UNCHANGED loadVars

\* Lines 65-118, resumed from the yield of line 63: the patching, up to
\* the yield of "Sending job..."; an exception of the patching reaches the
\* handler of line 197, which yields the last pair with the workflow
\* patched up to the assignment that raised.
Configure(j, draw) ==
    /\ pc[j] = "configure"
    /\ LET r == Configured(Deref(j), args[j].inputs_map, uploaded[j], draw) IN
       IF r.raised
       THEN /\ WriteWorkflow(j, r.wf)
            /\ Yield(j, OnException)
            /\ Final(j)
            /\ UNCHANGED <<drawn, target>>
       ELSE /\ WriteWorkflow(j, r.wf)
            /\ Yield(j, <<Status("Sending job...")>>)
            /\ pc' = [pc EXCEPT ![j] = "submit"]
            /\ drawn' = [drawn EXCEPT ![j] = draw]
            /\ UNCHANGED <<uploaded, prompt_id, history_data, target, ticks>>
    /\ UNCHANGED <<nextId, args, client_id, net, written, posted, closed>>
    /\ UNCHANGED loadVars

\* A slip: the status of the response is not looked at.
SubmitOkAnyStatus(resp) == resp.kind \in {"ok", "non200"}

\* Line 122: the submission counts as accepted.
SubmitOk(resp) == resp.kind = "ok"

\* Lines 119-128: POST /prompt.
Submit(j, resp) ==
    /\ pc[j] = "submit"
    /\ Request(j, <<Http("prompt", resp.kind)>>)
    /\ posted' = [posted EXCEPT ![j] = Post(Deref(j), client_id[j])]
    /\ IF SubmitOk(resp)
       THEN /\ prompt_id' = [prompt_id EXCEPT ![j] = resp.prompt_id]
            /\ pc' = [pc EXCEPT ![j] = "poll"]
            /\ UNCHANGED <<uploaded, history_data, target, ticks, workflow, out>>
       ELSE /\ Yield(j, <<Status(IF resp.kind = "non200"
                                 THEN "Error submitting"
                                 ELSE "Connection error")>>)
            /\ Final(j)
            /\ UNCHANGED <<workflow, target>>
    /\ UNCHANGED <<WORKFLOWS, nextId, args, client_id, written, drawn, closed>>
    /\ UNCHANGED loadVars

\* A slip: any 200 with a JSON body counts as completion.
HistoryDoneAnyBody(resp, pid) == resp.kind = "ok"

\* Lines 143-145: the response is a 200 whose body holds the job id.  A
\* prompt_id of None is no key of a JSON object.
HistoryDone(resp, pid) ==
    resp.kind = "ok" /\ pid # "None" /\ pid \in resp.ids

\* Line 148: job_data.get('outputs', {})
JobOutputs(resp) == IF resp.hasOutputs THEN resp.outputs ELSE <<>>

\* A slip: without a target the job falls through to the next tick.
AfterSelectKeepsPolling(tf) ==
    IF tf.some
    THEN [pc |-> "download", pairs |-> <<>>]
    ELSE [pc |-> "poll", pairs |-> <<>>]

\* What the job does after the selection of lines 151-174, with target_file
\* tf: download it, or yield the last pair of line 192.
AfterSelect(tf) ==
    IF tf.some
    THEN [pc |-> "download", pairs |-> <<>>]
    ELSE [pc |-> "final", pairs |-> <<Status("Finished, but no output found.")>>]

\* Lines 135-137, the top of the polling loop: the sleep, then the yield
\* of the elapsed time, where the job is suspended before any GET /history
\* of this iteration.
Sleep(j) ==
    /\ pc[j] = "poll"
    /\ ticks[j] < MaxTicks
    /\ ticks' = [ticks EXCEPT ![j] = @ + 1]
    /\ Yield(j, <<Status("Processing...")>>)
    /\ pc' = [pc EXCEPT ![j] = "processing"]
    /\ UNCHANGED <<WORKFLOWS, nextId, args, client_id, workflow, uploaded,
                   prompt_id, history_data, target, net, written, drawn,
                   posted, closed>>
    /\ UNCHANGED loadVars

\* Lines 139-146 and 194-195, resumed from the yield of line 137: GET
\* /history; on completion the job yields "Job finished! Downloading..."
\* and is suspended there, target_file not yet assigned; otherwise, and
\* when the request raised, the loop starts over.
PollTick(j, resp) ==
    /\ pc[j] = "processing"
    /\ Request(j, <<HttpHistory(resp, prompt_id[j])>>)
    /\ history_data' = [history_data EXCEPT ![j] =
                           IF resp.kind = "ok"
                           THEN HttpHistory(resp, prompt_id[j]).body
                           ELSE @]
    /\ IF HistoryDone(resp, prompt_id[j])
       THEN /\ Yield(j, <<Status("Job finished! Downloading...")>>)
            /\ pc' = [pc EXCEPT ![j] = "finished"]
       ELSE /\ pc' = [pc EXCEPT ![j] = "poll"]
            /\ UNCHANGED out
    /\ UNCHANGED <<WORKFLOWS, nextId, args, client_id, workflow, uploaded,
                   prompt_id, target, ticks, written, drawn, posted, closed>>
    /\ UNCHANGED loadVars

\* Lines 147-176 and 191-193, resumed from the yield of line 146: the
\* selection of target_file in the outputs of the job's entry.  Line 151
\* sets target_file to None before the scan, so what an earlier selection
\* had chosen is gone; without an item target_file stays None and the job
\* yields its last pair.
Select(j) ==
    /\ pc[j] = "finished"
    /\ LET tf == SelectOutput(JobOutputs(history_data[j]))
           s == AfterSelect(tf)
       IN  /\ Yield(j, s.pairs)
           /\ target' = [target EXCEPT ![j] = tf]
           /\ IF s.pc = "final"
              THEN /\ Final(j)
                   /\ UNCHANGED workflow
              ELSE /\ pc' = [pc EXCEPT ![j] = s.pc]
                   /\ UNCHANGED <<uploaded, prompt_id, history_data, ticks,
                                  workflow>>
    /\ UNCHANGED <<WORKFLOWS, nextId, args, client_id, net, written, drawn,
                   posted, closed>>
    /\ UNCHANGED loadVars

\* Lines 182-187: the download went through (GET /view returned, whatever
\* its status, and the local file was written).
Downloaded(resp) == resp.kind # "raise" /\ resp.writable

\* Where the job goes when the download raised: the handler of lines
\* 194-195 (continue) resumes the polling loop.
AfterDownloadError == [pc |-> "poll", pairs |-> <<>>]

\* The calls of a download: GET /view and, when it returned, the write.
DownloadCalls(resp, it) ==
    <<HttpView(resp.kind, it)>> \o
    (IF resp.kind = "raise" THEN <<>>
     ELSE <<Http("write", IF resp.writable THEN "ok" ELSE "raise")>>)

\* Lines 176-190 and 194-195: GET /view of target_file and the write of
\* the local file.
Download(j, resp) ==
    /\ pc[j] = "download"
    /\ Request(j, DownloadCalls(resp, target[j]))
    /\ IF Downloaded(resp)
       THEN LET path == LocalPath(client_id[j], target[j].item.filename) IN
            /\ written' = [written EXCEPT ![j] = @ \cup {path}]
            /\ Yield(j, <<Pair(path, "Success: Video Generated.")>>)
            /\ Final(j)
            /\ UNCHANGED <<workflow, target>>
       ELSE /\ Yield(j, AfterDownloadError.pairs)
            /\ IF AfterDownloadError.pc = "final"
               THEN Final(j) /\ UNCHANGED <<workflow, target>>
               ELSE /\ pc' = [pc EXCEPT ![j] = AfterDownloadError.pc]
                    /\ UNCHANGED <<uploaded, prompt_id, history_data, target,
                                   ticks, workflow>>
            /\ UNCHANGED written
    /\ UNCHANGED <<WORKFLOWS, nextId, args, client_id, drawn, posted, closed>>
    /\ UNCHANGED loadVars

\* The line of the yield of a last pair, by its status.
FinalLine(msg) ==
    CASE msg = "Error: Workflow not found" -> 31
      [] msg = "Error: Missing file" -> 43
      [] msg = "Upload failed" -> 56
      [] msg = "Upload error" -> 59
      [] msg = "Error submitting" -> 123
      [] msg = "Connection error" -> 127
      [] msg = "Success: Video Generated." -> 189
      [] msg = "Finished, but no output found." -> 192
      [] msg = "Error" -> 198

\* The yield the generator of job j is suspended at, by line; none when
\* the job is between two of them or has ended.  An upload loop that has
\* uploaded a file has left the yield of line 38.
CloseLines(j) ==
    (IF pc[j] = "upload" /\ uploaded[j] = <<>> THEN {38} ELSE {}) \cup
    (IF pc[j] = "configure" THEN {63} ELSE {}) \cup
    (IF pc[j] = "submit" THEN {118} ELSE {}) \cup
    (IF pc[j] = "processing" THEN {137} ELSE {}) \cup
    (IF pc[j] = "finished" THEN {146} ELSE {}) \cup
    (IF pc[j] = "final" /\ out[j] # <<>>
     THEN {FinalLine(out[j][Len(out[j])].msg)} ELSE {})

\* A slip: the close is ignored, the job stays where it is and goes on.
CloseIgnored(at) == at

\* GeneratorExit raised at a yield of the job at `at`: it is no Exception,
\* so neither handler (lines 194 and 197, `except Exception`) catches it
\* and the generator ends there.
OnGeneratorExit(at) == "closed"

\* The caller closes (or drops) the generator at the yield of the given
\* line: generator.close() raises GeneratorExit there.
Close(j, line) ==
    /\ line \in CloseLines(j)
    /\ closed' = [closed EXCEPT ![j] = TRUE]
    /\ IF OnGeneratorExit(pc[j]) = "closed"
       THEN /\ pc' = [pc EXCEPT ![j] = "closed"]
            /\ uploaded' = [uploaded EXCEPT ![j] = <<>>]
            /\ prompt_id' = [prompt_id EXCEPT ![j] = "None"]
            /\ history_data' = [history_data EXCEPT ![j] = NoBody]
            /\ target' = [target EXCEPT ![j] = NoneItem]
            /\ ticks' = [ticks EXCEPT ![j] = 0]
            /\ DropWorkflow(j)
       ELSE UNCHANGED <<pc, uploaded, prompt_id, history_data, target, ticks,
                        workflow>>
    /\ UNCHANGED <<WORKFLOWS, nextId, args, client_id, out, net, written,
                   drawn, posted>>
    /\ UNCHANGED loadVars

\* Lines 32, 44, 57, 60, 124, 128, 190, 193 and the end of the function
\* after line 198: resumed from the yield of its last pair the generator
\* returns; its frame, and so its locals, are gone; what it yielded,
\* requested and wrote stays observed.
Return(j) ==
    /\ pc[j] = "final"
    /\ pc' = [pc EXCEPT ![j] = "done"]
    /\ uploaded' = [uploaded EXCEPT ![j] = <<>>]
    /\ prompt_id' = [prompt_id EXCEPT ![j] = "None"]
    /\ history_data' = [history_data EXCEPT ![j] = NoBody]
    /\ target' = [target EXCEPT ![j] = NoneItem]
    /\ ticks' = [ticks EXCEPT ![j] = 0]
    /\ DropWorkflow(j)
    /\ UNCHANGED <<WORKFLOWS, nextId, args, client_id, out, net, written,
                   drawn, posted, closed>>
    /\ UNCHANGED loadVars

\* The caller has consumed the sequence of a job that returned, or has
\* closed it, and drops the generator.
Release(j) ==
    /\ pc[j] \in {"done", "closed"}
    /\ pc' = [pc EXCEPT ![j] = "idle"]
    /\ args' = [args EXCEPT ![j] = NoArgs]
    /\ client_id' = [client_id EXCEPT ![j] = 0]
    /\ out' = [out EXCEPT ![j] = <<>>]
    /\ net' = [net EXCEPT ![j] = <<>>]
    /\ written' = [written EXCEPT ![j] = {}]
    /\ drawn' = [drawn EXCEPT ![j] = NoDraw]
    /\ posted' = [posted EXCEPT ![j] = NoPost]
    /\ closed' = [closed EXCEPT ![j] = FALSE]
    /\ UNCHANGED <<WORKFLOWS, nextId, workflow, uploaded, prompt_id,
                   history_data, target, ticks>>
    /\ UNCHANGED loadVars

\* ------------------------------------------------------ specifications

\* The draws of the seeds of job j.
Draws(j) ==
    IF pc[j] = "configure" THEN [SeedSlots(Deref(j)) -> SeedSamples] ELSE {}

\* One caller: runs of the runner one after the other, with every call,
\* response and draw of the model.
Next ==
    \/ \E a \in Calls : Call(1, a)
    \/ \E r \in UploadResps : UploadFile(1, r)
    \/ UploadsEnd(1)
    \/ \E d \in Draws(1) : Configure(1, d)
    \/ \E r \in PromptResps : Submit(1, r)
    \/ Sleep(1)
    \/ \E r \in HistoryResps : PollTick(1, r)
    \/ Select(1)
    \/ \E r \in ViewResps : Download(1, r)
    \/ Return(1)
    \/ Release(1)

Spec == Init /\ [][Next]_vars

\* Concurrent callers: the jobs interleave at every step.
NextConc ==
    \E j \in Jobs :
        \/ \E a \in ConcCalls : Call(j, a)
        \/ \E r \in ConcUploadResps : UploadFile(j, r)
        \/ UploadsEnd(j)
        \/ \E d \in Draws(j) : Configure(j, d)
        \/ \E r \in ConcPromptResps : Submit(j, r)
        \/ Sleep(j)
        \/ \E r \in ConcHistoryResps : PollTick(j, r)
        \/ Select(j)
        \/ \E r \in ConcViewResps : Download(j, r)
        \/ Return(j)
        \/ Release(j)

SpecConc == Init /\ [][NextConc]_vars

\* One text-to-video job that the remote accepts and completes: the output
\* selection over every outputs mapping of the model.
NextSelect ==
    \/ Call(1, TextToVideo)
    \/ UploadsEnd(1)
    \/ \E d \in Draws(1) : Configure(1, d)
    \/ Submit(1, PResp("ok", "p1"))
    \/ Sleep(1)
    \/ \E r \in SelectHistoryResps : PollTick(1, r)
    \/ Select(1)
    \/ Download(1, VResp("200", TRUE))
    \/ Return(1)

SpecSelect == Init /\ [][NextSelect]_vars

\* The patcher on every node, key and call of PatchNodes, PatchKeys and
\* PatchCalls: one job on a store that holds the template "w", up to the
\* answer to its POST /prompt.
InitPatch ==
    /\ WORKFLOWS \in PatchStores
    /\ Loaded(Dir(TRUE, <<DirFile(WJson, TRUE, WORKFLOWS["w"])>>))
    /\ InitJobs

NextPatch ==
    \/ \E a \in PatchCalls : Call(1, a)
    \/ \E r \in ConcUploadResps : UploadFile(1, r)
    \/ UploadsEnd(1)
    \/ \E d \in Draws(1) : Configure(1, d)
    \/ \E r \in ConcPromptResps : Submit(1, r)
    \/ Return(1)

SpecPatch == InitPatch /\ [][NextPatch]_vars

\* One caller who may close the sequence of a job at any of its yields.
NextClose ==
    \/ \E a \in ConcCalls : Call(1, a)
    \/ \E r \in UploadResps : UploadFile(1, r)
    \/ UploadsEnd(1)
    \/ \E d \in Draws(1) : Configure(1, d)
    \/ \E r \in PromptResps : Submit(1, r)
    \/ Sleep(1)
    \/ \E r \in HistoryResps : PollTick(1, r)
    \/ Select(1)
    \/ \E r \in ViewResps : Download(1, r)
    \/ \E l \in CloseLines(1) : Close(1, l)
    \/ Return(1)
    \/ Release(1)

SpecClose == Init /\ [][NextClose]_vars

\* A slip: the try is around the loop, the first file that fails ends
\* the loading.
AbortOnLoadError(n, len) == len

\* Lines 214-215: the handler is inside the loop; after a file that could
\* not be read or parsed the loop goes on with the next entry.  n is the
\* number of entries handled before, len the length of the listing.
AfterLoadError(n, len) == n + 1

\* One iteration of the loop of lines 207-215.
LoadFile ==
    /\ loading
    /\ directory.exists
    /\ visited < Len(directory.files)
    /\ LET f == directory.files[visited + 1] IN
       IF EndsWith(f.name, JsonSuffix)
       THEN IF f.ok
            THEN /\ WORKFLOWS' =
                      DictSet(WORKFLOWS, StrOf(SplitextRoot(f.name)), f.content)
                 /\ visited' = visited + 1
            ELSE /\ visited' = AfterLoadError(visited, Len(directory.files))
                 /\ UNCHANGED WORKFLOWS
       ELSE /\ visited' = visited + 1
            /\ UNCHANGED WORKFLOWS
    /\ UNCHANGED <<directory, loading>>
    /\ UNCHANGED jobVars

\* load_workflows returns: the directory does not exist (lines 204-206),
\* or the listing is exhausted.
LoadReturn ==
    /\ loading
    /\ ~directory.exists \/ visited = Len(directory.files)
    /\ loading' = FALSE
    /\ UNCHANGED <<WORKFLOWS, directory, visited>>
    /\ UNCHANGED jobVars

\* The calls made after the loading.
LoadCalls == {TextToVideo, RemoveBg("readable")}

\* The start of the program: WORKFLOWS = {} (line 17), then
\* load_workflows on a directory of the model (line 317), then one call
\* of the runner up to the answer to its POST /prompt.
InitLoad ==
    /\ WORKFLOWS = EmptyStore
    /\ directory \in Directories
    /\ visited = 0
    /\ loading = TRUE
    /\ InitJobs

NextLoad ==
    \/ LoadFile
    \/ LoadReturn
    \/ \E a \in LoadCalls : Call(1, a)
    \/ UploadsEnd(1)
    \/ \E d \in Draws(1) : Configure(1, d)
    \/ \E r \in ConcPromptResps : Submit(1, r)
    \/ Return(1)

SpecLoad == InitLoad /\ [][NextLoad]_vars

\* ------------------------------------------------------------ the claims

Last(s) == s[Len(s)]

\* The job has yielded its last pair: it is suspended at that yield or has
\* returned.
Ended(j) == pc[j] \in {"final", "done"}

\* The places of the log of job j that hold a call of the kind c.
CallsOf(j, c) == {i \in 1..Len(net[j]) : net[j][i].call = c}

\* The statuses that end a sequence without an artifact.
FailureMsgs ==
    {"Error: Workflow not found", "Error: Missing file", "Upload failed",
     "Upload error", "Error", "Error submitting", "Connection error",
     "Finished, but no output found."}

\* The job holds a workflow of its own making.
Patching(j) ==
    pc[j] \in {"submit", "poll", "processing", "finished", "download"}

\* C1: copy isolation.  Whatever the jobs do, one after the other or
\* interleaved, every template stored in WORKFLOWS is what it was after
\* loading, and the workflow a job holds is the patch of the pristine
\* template with that job's own assignments, uploads and seed draws.
C1_CopyIsolation ==
    /\ WORKFLOWS = LoadedTemplates
    /\ \A j \in Jobs :
         Patching(j) =>
           /\ workflow[j].own
           /\ \E d \in [SeedSlots(LoadedTemplates[args[j].name]) -> SeedSamples] :
                workflow[j].obj =
                  Configured(LoadedTemplates[args[j].name], args[j].inputs_map,
                             uploaded[j], d).wf

\* Two jobs on the same template have both written a field, an upload and
\* a seed, each into its copy, and the copies differ.
C1_Witness ==
    \E j, k \in Jobs :
        /\ j # k
        /\ Patching(j) /\ Patching(k)
        /\ args[j].name = "I2V_hq_lowvram(USING)"
        /\ args[k].name = args[j].name
        /\ workflow[j].obj # workflow[k].obj
        /\ \A i \in {j, k} :
             /\ workflow[i].obj["6"].inputs["text"] = StrV("prompt")
             /\ workflow[i].obj["88"].wvList[1] = StrV("up.png")
             /\ workflow[i].obj["3"].inputs["noise_seed"] # IntV(7)

\* The download of job j failed: GET /view raised or answered a status
\* other than 200, or the local file could not be written.
DownloadFailed(j) ==
    /\ net[j] # <<>>
    /\ \/ Last(net[j]).call = "view" /\ Last(net[j]).res = "raise"
       \/ /\ Last(net[j]).call = "write"
          /\ \/ Last(net[j]).res = "raise"
             \/ net[j][Len(net[j]) - 1].res # "200"

\* C2: when the download of the selected artifact fails, the sequence ends
\* with a last pair (None, error): the job is over, reports no artifact
\* path and does not go back to polling.
C2_DownloadFailureTerminal ==
    \A j \in Jobs :
        DownloadFailed(j) =>
            /\ Ended(j)
            /\ ~Last(out[j]).path.some
            /\ Last(out[j]).msg \in FailureMsgs

\* The index of the first entry of files that cannot be uploaded because
\* its path is None or cannot be opened; 0 when there is none.
FirstBadPath(files) ==
    IF \E i \in 1..Len(files) : files[i].path # "readable"
    THEN CHOOSE i \in 1..Len(files) :
            /\ files[i].path # "readable"
            /\ \A k \in 1..(i - 1) : files[k].path = "readable"
    ELSE 0

UploadErrorMsgs == {"Error: Missing file", "Upload failed", "Upload error"}

\* C3: an upload failure ends the job at once.  A failed POST /upload/image
\* is the last call the job makes (no retry, no further upload, no POST
\* /prompt) and the job is over with the one pair (None, upload error)
\* after "Uploading files..."; a job whose files_map holds a None or
\* unreadable path never gets past that entry, and uploads nothing for it.
C3_UploadFailureTerminal ==
    \A j \in Jobs :
        /\ \A i \in CallsOf(j, "upload") :
             net[j][i].res # "ok" =>
                /\ i = Len(net[j])
                /\ Ended(j)
                /\ Len(out[j]) = 2
                /\ ~out[j][2].path.some
                /\ out[j][2].msg \in UploadErrorMsgs
        /\ LET b == FirstBadPath(args[j].files_map) IN
           (pc[j] # "idle" /\ b > 0) =>
                /\ pc[j] \in {"upload", "final", "done"}
                /\ Len(uploaded[j]) < b
                /\ Cardinality(CallsOf(j, "upload")) < b
                /\ CallsOf(j, "prompt") = {}
                /\ Ended(j) =>
                     /\ Len(out[j]) = 2
                     /\ ~out[j][2].path.some
                     /\ out[j][2].msg \in UploadErrorMsgs

\* A job is over after a failed upload that followed a successful one, and
\* another after the None path that followed a successful upload.
C3_Witness ==
    \/ /\ pc[1] = "done"
       /\ Cardinality(CallsOf(1, "upload")) = 2
       /\ Last(net[1]).res \in {"raise", "non200", "badjson"}
       /\ Last(out[1]).msg \in {"Upload failed", "Upload error"}
    \/ /\ pc[1] = "done"
       /\ FirstBadPath(args[1].files_map) = 2
       /\ Cardinality(CallsOf(1, "upload")) = 1
       /\ Last(out[1]).msg = "Error: Missing file"

SubmitErrorMsgs == {"Error submitting", "Connection error"}

\* C4: a submission failure ends the job at once.  A POST /prompt that
\* raised, answered a status other than 200 or answered no JSON is the last call the job
\* makes (no GET /history, no GET /view, no second POST) and the job is
\* over with the one pair (None, submission error) after "Sending job...".
C4_SubmitFailureTerminal ==
    \A j \in Jobs :
        \A i \in CallsOf(j, "prompt") :
            net[j][i].res # "ok" =>
                /\ i = Len(net[j])
                /\ CallsOf(j, "prompt") = {i}
                /\ Ended(j)
                /\ Len(out[j]) = 4
                /\ out[j][3] = Status("Sending job...")
                /\ ~out[j][4].path.some
                /\ out[j][4].msg \in SubmitErrorMsgs

\* A job is over after POST /prompt answered a status other than 200.
C4_Witness ==
    /\ pc[1] = "done"
    /\ net[1] # <<>>
    /\ Last(net[1]) = Http("prompt", "non200")
    /\ Last(out[1]) = Status("Error submitting")

\* The entry i of the log of job j is a GET /history that answered 200
\* with a body holding the job's id.
CompleteEntry(e) == e.call = "history" /\ e.res = "ok" /\ e.body.hasId
Complete(j, i) == CompleteEntry(net[j][i])

\* The pair ends a sequence: it carries a path or a failure status.
IsTerminal(pair) == pair.path.some \/ pair.msg \in FailureMsgs

C5_Order(j) ==
    /\ \A u \in CallsOf(j, "upload") : \A p \in CallsOf(j, "prompt") : u < p
    /\ Cardinality(CallsOf(j, "prompt")) <= 1
    /\ CallsOf(j, "prompt") # {} =>
         /\ Cardinality(CallsOf(j, "upload")) = Len(args[j].files_map)
         /\ \A u \in CallsOf(j, "upload") : net[j][u].res = "ok"
    /\ \A h \in CallsOf(j, "history") :
         \E p \in CallsOf(j, "prompt") : p < h /\ net[j][p].res = "ok"
    /\ \A v \in CallsOf(j, "view") : v > 1 /\ Complete(j, v - 1)
    /\ (out[j] # <<>> /\ IsTerminal(Last(out[j]))) => Ended(j)

C5_NoCallAfterTerminal ==
    \A j \in Jobs :
        Ended(j) =>
            \/ net'[j] = net[j] /\ out'[j] = out[j] /\ written'[j] = written[j]
            \/ pc'[j] = "idle"

\* C5: the order of the calls of one job.  Every POST /upload/image comes
\* before the POST /prompt; there is at most one POST /prompt and it
\* follows a 200 upload of every entry of files_map; every GET /history
\* follows a 200 answer to POST /prompt; a GET /view comes right after a
\* history response that holds the job id; and a job that has yielded its
\* last pair makes no further call.
C5_LifecycleOrder ==
    /\ [](\A j \in Jobs : C5_Order(j))
    /\ [][C5_NoCallAfterTerminal]_vars

\* A job with two uploads has gone through every kind of call and is over.
C5_Witness ==
    /\ pc[1] = "done"
    /\ Cardinality(CallsOf(1, "upload")) = 2
    /\ CallsOf(1, "prompt") # {}
    /\ Cardinality(CallsOf(1, "history")) = 2
    /\ CallsOf(1, "view") # {}
    /\ Last(out[1]).path.some

\* The job j takes a step of its own.
Steps(j) == <<pc[j], out[j], net[j]>> # <<pc'[j], out'[j], net'[j]>>

\* C6: while a job polls, a tick whose GET /history did not answer 200
\* with the job's id (it raised, answered another status, no JSON, or a
\* body without the id) leaves the job polling.  From the top of the loop
\* the job yields the one pair (None, "Processing...") and makes no call;
\* resumed from there it makes the one call GET /history and, unless the
\* answer holds its id, yields nothing and is at the top of the loop
\* again: the job leaves the polling loop only on a response that holds
\* its id.
C6_PollingContinues ==
    [][\A j \in Jobs :
         /\ (pc[j] = "poll" /\ Steps(j)) =>
                /\ pc'[j] = "processing"
                /\ net'[j] = net[j]
                /\ out'[j] = Append(out[j], Status("Processing..."))
         /\ (pc[j] = "processing" /\ Steps(j)) =>
                /\ Len(net'[j]) = Len(net[j]) + 1
                /\ SubSeq(net'[j], 1, Len(net[j])) = net[j]
                /\ Last(net'[j]).call = "history"
                /\ IF CompleteEntry(Last(net'[j]))
                   THEN pc'[j] = "finished"
                   ELSE pc'[j] = "poll" /\ out'[j] = out[j]]_vars

\* A job still polls after two ticks that did not complete: the first got
\* a body without the id, the second no JSON.
C6_Witness ==
    /\ pc[1] = "poll"
    /\ ticks[1] = 2
    /\ Len(net[1]) >= 2
    /\ Last(net[1]).call = "history" /\ Last(net[1]).res = "malformed"
    /\ net[1][Len(net[1]) - 1].call = "history"
    /\ net[1][Len(net[1]) - 1].res = "ok"
    /\ ~net[1][Len(net[1]) - 1].body.hasId
    /\ prompt_id[1] = "p1"
    /\ Last(out[1]) = Status("Processing...")

\* The items of an outputs mapping in the order of encounter: nodes in the
\* order of the response, buckets videos, gifs, files, images, items in
\* the order of the list.
RECURSIVE BucketItems(_, _)
BucketItems(content, b) ==
    IF b > Len(Buckets) THEN <<>>
    ELSE (IF Buckets[b] \in DOMAIN content THEN content[Buckets[b]] ELSE <<>>)
         \o BucketItems(content, b + 1)

RECURSIVE Encounter(_)
Encounter(outputs) ==
    IF outputs = <<>> THEN <<>>
    ELSE BucketItems(Head(outputs).content, 1) \o Encounter(Tail(outputs))

\* The file name ends, whatever the case, in one of the video extensions.
VideoName(fn) ==
    \E e \in { <<".", "m", "p", "4">>, <<".", "m", "o", "v">>,
               <<".", "w", "e", "b", "m">>, <<".", "m", "k", "v">>,
               <<".", "g", "i", "f">> } :
        /\ Len(fn) >= Len(e)
        /\ \A i \in 1..Len(e) : Lower(fn)[Len(fn) - Len(e) + i] = e[i]

Videos(items) == {i \in 1..Len(items) : VideoName(items[i].filename)}

FirstVideo(items) == CHOOSE i \in Videos(items) : \A k \in Videos(items) : i <= k

\* C7: the selection prefers video.  When the outputs of the completed job
\* hold an item with a video file name, the item selected is the first
\* such item in the order of encounter, whatever comes before it.
C7_PrefersVideo ==
    \A j \in Jobs :
        pc[j] = "download" =>
            LET items == Encounter(Last(net[j]).body.outputs) IN
            Videos(items) # {} => target[j] = SomeItem(items[FirstVideo(items)])

\* The video selected is the fourth item met, in the second node, after
\* three items that are no videos.
C7_Witness ==
    /\ pc[1] = "download"
    /\ LET items == Encounter(Last(net[1]).body.outputs) IN
       /\ Videos(items) # {}
       /\ FirstVideo(items) = 4
       /\ target[1] = SomeItem(items[4])
       /\ items[4].filename = UpperMp4
       /\ Len(Last(net[1]).body.outputs) = 2

\* C8: the fallback of the selection.  When the outputs of the completed
\* job hold items but none with a video file name, the job, resumed from
\* the yield of "Job finished! Downloading...", selects the first item in
\* the order of encounter and asks GET /view for that item.
C8_FallbackFirstItem ==
    \A j \in Jobs :
        /\ (net[j] # <<>> /\ Complete(j, Len(net[j]))) =>
             LET items == Encounter(Last(net[j]).body.outputs) IN
             (items # <<>> /\ Videos(items) = {}) =>
                 /\ pc[j] \in {"finished", "download"}
                 /\ pc[j] = "download" => target[j] = SomeItem(items[1])
        /\ \A v \in CallsOf(j, "view") :
             LET items == Encounter(net[j][v - 1].body.outputs) IN
             (items # <<>> /\ Videos(items) = {}) =>
                 net[j][v].item = SomeItem(items[1])

\* The job downloaded e.mp4.txt, the first item of the files bucket, from
\* a node whose images bucket holds a.png.
C8_Witness ==
    /\ pc[1] = "done"
    /\ Last(out[1]).path.some
    /\ Last(out[1]).path.filename = Txt
    /\ \E v \in CallsOf(1, "view") :
         /\ net[1][v].item.item.filename = Txt
         /\ LET items == Encounter(net[1][v - 1].body.outputs) IN
            Videos(items) = {} /\ Len(items) = 4

\* C9: a completed job without any output item.  The history response
\* that holds the job id but no item in any bucket of any node (or no
\* outputs) is the last call of the job: the job yields "Job finished!
\* Downloading..." and, resumed from there, is over with the last pair
\* (None, "Finished, but no output found."); it asks no GET /view, writes
\* no file and does not poll again.
C9_NoOutputFound ==
    \A j \in Jobs :
        \A h \in CallsOf(j, "history") :
            (/\ Complete(j, h)
             /\ Encounter(IF net[j][h].body.hasOutputs
                          THEN net[j][h].body.outputs ELSE <<>>) = <<>>) =>
                /\ h = Len(net[j])
                /\ pc[j] \in {"finished", "final", "done"}
                /\ Last(out[j]) =
                     IF pc[j] = "finished"
                     THEN Status("Job finished! Downloading...")
                     ELSE Status("Finished, but no output found.")
                /\ written[j] = {}

\* A job is over on a response with two nodes and no item.
C9_Witness ==
    /\ pc[1] = "done"
    /\ net[1] # <<>>
    /\ Complete(1, Len(net[1]))
    /\ Len(Last(net[1]).body.outputs) = 2
    /\ Last(out[1]) = Status("Finished, but no output found.")

\* C10: the shape of the sequence of a job.  Every pair before the last
\* carries no artifact, at most one pair carries a path, and a sequence
\* that has ended ends with (path, success) or (None, failure status): the
\* job ends by yielding such a pair, never by an exception.
C10_SequenceShape ==
    \A j \in Jobs :
        /\ \A i \in 1..(Len(out[j]) - 1) : ~out[j][i].path.some
        /\ Cardinality({i \in 1..Len(out[j]) : out[j][i].path.some}) <= 1
        /\ Ended(j) =>
             /\ out[j] # <<>>
             /\ \/ /\ Last(out[j]).path.some
                   /\ Last(out[j]).msg = "Success: Video Generated."
                \/ /\ ~Last(out[j]).path.some
                   /\ Last(out[j]).msg \in FailureMsgs

\* A job is over with an artifact after a download that failed and a
\* second completion.
C10_Witness ==
    /\ pc[1] = "done"
    /\ Last(out[1]).path.some
    /\ Cardinality(CallsOf(1, "view")) = 2
    /\ Len(out[1]) = 8

\* The values the named inputs `seed` and `noise_seed` of wf hold.
SeedValues(wf) == {wf[s[1]].inputs[s[2]] : s \in SeedSlots(wf)}

\* The workflows of job j that are or were submitted: the one it holds once
\* configured, and the body of its POST /prompt.
Submitted(j) ==
    (IF Patching(j) THEN {Deref(j)} ELSE {}) \cup
    (IF posted[j].sent THEN {posted[j].prompt} ELSE {})

\* v is an int r = hi * SeedBase + n in normal form.
IsInt(v) == v.kind = "int" /\ v.n >= 0 /\ v.n < SeedBase /\ v.hi >= 0

\* C11 as stated: every value written into a `seed` or `noise_seed` named
\* input of the submitted template is an integer r with 1 <= r < 10^12;
\* 10^12 itself is never produced.
C11_SeedBelowUpperBound ==
    \A j \in Jobs : \A wf \in Submitted(j) : \A v \in SeedValues(wf) :
        /\ IsInt(v)
        /\ v.hi > 0 \/ v.n >= 1
        /\ v.hi < SeedBase

\* C11, amended: every value written into a `seed` or `noise_seed` named
\* input of the submitted template is an integer r with 1 <= r <= 10^12;
\* both ends of the range are produced.
C11_SeedInClosedRange ==
    \A j \in Jobs : \A wf \in Submitted(j) : \A v \in SeedValues(wf) :
        /\ IsInt(v)
        /\ v.hi > 0 \/ v.n >= 1
        /\ v.hi < SeedBase \/ (v.hi = SeedBase /\ v.n = 0)

\* A job has posted a template whose seed is 10^12, the upper end of the
\* range.
C11_Witness ==
    /\ posted[1].sent
    /\ BigV(SeedBase, 0) \in SeedValues(posted[1].prompt)
    /\ CallsOf(1, "prompt") # {}

\* The values a job assigns: those of inputs_map and the names its uploads
\* got.
Assigned(j) ==
    {args[j].inputs_map[i].val : i \in 1..Len(args[j].inputs_map)}
    \cup {uploaded[j][i].val : i \in 1..Len(uploaded[j])}

\* C12: the seeds are randomized after every assignment and in every
\* node.  In the body of a POST /prompt, every named input `seed` or
\* `noise_seed` of every node holds what random.randint returned to this
\* job for that place; it holds neither the value of the stored template
\* nor a value the call assigned to it.
C12_SeedsRandomizedLast ==
    \A j \in Jobs :
        /\ posted[j].sent =>
             /\ DOMAIN posted[j].prompt = DOMAIN LoadedTemplates[args[j].name]
             /\ SeedSlots(posted[j].prompt) =
                  SeedSlots(LoadedTemplates[args[j].name])
             /\ \A s \in SeedSlots(posted[j].prompt) :
                  LET v == posted[j].prompt[s[1]].inputs[s[2]] IN
                  /\ s \in DOMAIN drawn[j]
                  /\ v = BigV(drawn[j][s][1], drawn[j][s][2])
                  /\ v # LoadedTemplates[args[j].name][s[1]].inputs[s[2]]
                  /\ v \notin Assigned(j)
        /\ pc[j] = "submit" => posted[j] = NoPost

\* A job was posted with a drawn seed although its inputs_map assigns 42
\* to the seed, or although its files_map uploads a file for it.
C12_Witness ==
    /\ posted[1].sent
    /\ posted[1].prompt["3"].inputs["seed"].hi \in {0, SeedBase}
    /\ posted[1].prompt["3"].inputs["seed"].kind = "int"
    /\ \/ /\ args[1] = Positional(-1)
          /\ posted[1].prompt["89"].wvList[3] = StrV("prompt")
       \/ /\ args[1] = SeedUpload
          /\ CallsOf(1, "upload") # {}
          /\ \E i \in CallsOf(1, "upload") : net[1][i].res = "ok"

\* The assignments job j applies, in order: inputs_map, then the uploads.
Assignments(j) == args[j].inputs_map \o uploaded[j]

\* The places of Assignments(j) that name the node nid.
Targeting(j, nid) ==
    {i \in 1..Len(Assignments(j)) : Assignments(j)[i].nid = nid}

\* The last assignment of job j to the node nid.
LastAssigned(j, nid) ==
    Assignments(j)[CHOOSE i \in Targeting(j, nid) :
                      \A k \in Targeting(j, nid) : k <= i]

\* The node nid of the template of job j is a loader with a widgets list.
LoaderWithList(j, nid) ==
    /\ args[j].name \in DOMAIN WORKFLOWS
    /\ nid \in DOMAIN WORKFLOWS[args[j].name]
    /\ WORKFLOWS[args[j].name][nid].class_type \in
         {"LoadVideo", "LoadImage", "VHS_LoadVideo"}
    /\ WORKFLOWS[args[j].name][nid].wvKind = "list"

\* C13 as stated: for every loader node that carries widgets_values as a
\* list, patching any field key with v sets position 0 of the list to v.
C13_LoaderSetsPositionZero ==
    \A j \in Jobs : Patching(j) =>
        \A nid \in DOMAIN Deref(j) :
            (LoaderWithList(j, nid) /\ Targeting(j, nid) # {}) =>
                /\ Len(Deref(j)[nid].wvList) >= 1
                /\ Deref(j)[nid].wvList[1] = LastAssigned(j, nid).val

\* C13, amended: for every loader node that carries a non-empty list,
\* patching any field key (a name, among the named inputs or not, or a
\* position) with v sets position 0 to v and changes nothing else of the
\* node; an empty list has no position 0 and stays empty.
C13_LoaderNonEmptyList ==
    \A j \in Jobs : Patching(j) =>
        \A nid \in DOMAIN Deref(j) :
            (LoaderWithList(j, nid) /\ Targeting(j, nid) # {}) =>
                LET T == WORKFLOWS[args[j].name][nid] IN
                IF Len(T.wvList) > 0
                THEN Deref(j)[nid] =
                        [T EXCEPT !.wvList[1] = LastAssigned(j, nid).val]
                ELSE Deref(j)[nid].wvList = <<>>

\* The key "image" was patched on a LoadImage node that has the named
\* input "image" and a list of three: position 0 holds the value, the
\* named input its old one.
C13_Witness ==
    /\ pc[1] = "submit"
    /\ args[1].inputs_map = <<A("1", KeyS("image"), StrV("new"))>>
    /\ WORKFLOWS["w"]["1"].class_type = "LoadImage"
    /\ Len(WORKFLOWS["w"]["1"].wvList) = 3
    /\ workflow[1].obj["1"].wvList = <<StrV("new"), StrV("w1"), StrV("w2")>>
    /\ "image" \in DOMAIN workflow[1].obj["1"].inputs
    /\ workflow[1].obj["1"].inputs["image"] = StrV("old.png")

\* The node nid of the template of job j carries a widgets list and the
\* call assigns it once, by the integer key i.
PositionalOnly(j, nid, i) ==
    /\ args[j].name \in DOMAIN WORKFLOWS
    /\ nid \in DOMAIN WORKFLOWS[args[j].name]
    /\ WORKFLOWS[args[j].name][nid].wvKind = "list"
    /\ Cardinality({k \in 1..Len(args[j].inputs_map) :
                      args[j].inputs_map[k].nid = nid}) = 1
    /\ \E k \in 1..Len(args[j].inputs_map) :
         /\ args[j].inputs_map[k].nid = nid
         /\ args[j].inputs_map[k].key = KeyI(i)
    /\ \A k \in 1..Len(args[j].files_map) : args[j].files_map[k].nid # nid

\* C14: positional patching, whatever the class_type.  For a node that
\* carries a widgets list and an integer key i, the patch sets exactly the
\* position i to v when 0 <= i < len; a key outside of the list (i >= len
\* or i < -len) changes nothing; and the patch raises no error.
C14_PositionalIndependent ==
    \A j \in Jobs : \A nid \in {"1", "89"} : \A i \in -4..3 :
        (pc[j] # "idle" /\ PositionalOnly(j, nid, i)) =>
            LET T == WORKFLOWS[args[j].name][nid]
                n == Len(T.wvList)
            IN  /\ Ended(j) => Last(out[j]).msg # "Error"
                /\ Patching(j) =>
                     /\ (0 <= i /\ i < n) =>
                          Deref(j)[nid] =
                            [T EXCEPT !.wvList[i + 1] = LastAssigned(j, nid).val]
                     /\ (i >= n \/ i < -n) => Deref(j)[nid] = T

\* The assignments of a sequence that name a node of the workflow wf.
RECURSIVE Present(_, _)
Present(wf, assigns) ==
    IF assigns = <<>> THEN <<>>
    ELSE (IF Head(assigns).nid \in DOMAIN wf THEN <<Head(assigns)>> ELSE <<>>)
         \o Present(wf, Tail(assigns))

\* C15: an assignment, of inputs_map or of an upload, whose node id is not
\* in the template copy changes nothing and is no error.  The workflow a
\* job holds and posts is the one the call without these assignments
\* gives, and a job that ends with the status of an exception was given
\* an assignment to a node the template has.
C15_MissingNodeIgnored ==
    \A j \in Jobs :
        /\ Patching(j) =>
             LET T == WORKFLOWS[args[j].name]
                 w == Configured(T, Present(T, args[j].inputs_map),
                                 Present(T, uploaded[j]), drawn[j])
             IN  /\ ~w.raised
                 /\ Deref(j) = w.wf
                 /\ posted[j].sent => posted[j].prompt = w.wf
        /\ (Ended(j) /\ Last(out[j]).msg = "Error") =>
             Present(WORKFLOWS[args[j].name], args[j].inputs_map) # <<>>

\* A job was posted whose inputs_map and upload name the node "2" that the
\* template does not have: the body holds the one assignment to the node
\* "1" and is otherwise the template.
C15_Witness ==
    /\ posted[1].sent
    /\ Len(args[1].inputs_map) = 2
    /\ uploaded[1] = <<A("2", KeyS("image"), StrV("up.png"))>>
    /\ WORKFLOWS["w"]["1"].hasInputs
    /\ "text" \in DOMAIN WORKFLOWS["w"]["1"].inputs
    /\ DOMAIN posted[1].prompt = {"1"}
    /\ posted[1].prompt["1"] =
         [WORKFLOWS["w"]["1"] EXCEPT !.inputs["text"] = StrV("new")]

\* C16: cancellation.  Once the caller has closed (or dropped) the
\* sequence of a job, at whichever yield, the polling ticks included, the
\* job makes no further HTTP request (no GET /history, no GET /view),
\* writes no file and yields nothing more; the closing itself makes no
\* request and yields nothing either.
C16_NoRequestAfterClose ==
    [][\A j \in Jobs :
         (closed[j] \/ closed'[j]) =>
            \/ /\ net'[j] = net[j]
               /\ written'[j] = written[j]
               /\ out'[j] = out[j]
               /\ closed[j] => pc'[j] = pc[j]
            \/ pc'[j] = "idle"]_vars

\* A job was closed at the yield of a polling tick, after a tick whose GET
\* /history did not hold its id: it has asked no GET /view and written no
\* file.
C16_Witness ==
    /\ closed[1]
    /\ pc[1] = "closed"
    /\ net[1] # <<>>
    /\ Last(net[1]).call = "history"
    /\ Len(out[1]) >= 2
    /\ Last(out[1]) = Status("Processing...")
    /\ out[1][Len(out[1]) - 1] = Status("Processing...")
    /\ CallsOf(1, "view") = {}
    /\ written[1] = {}

\* C17: a call for a name that is not in the store, the store that a
\* missing directory left empty included, yields the one pair (None,
\* "Workflow ... not found") and is over: no upload, no submission, no
\* other request, no file, no exception.
C17_TemplateNotFound ==
    \A j \in Jobs :
        /\ (pc[j] # "idle" /\ args[j].name \notin DOMAIN WORKFLOWS) =>
             /\ Ended(j)
             /\ out[j] = <<Status("Error: Workflow not found")>>
             /\ net[j] = <<>>
             /\ written[j] = {}
             /\ ~posted[j].sent
        /\ (~loading /\ ~directory.exists) => WORKFLOWS = EmptyStore

\* The directory is missing, the store is empty and the call for "t2v"
\* is over with the one pair.
C17_Witness ==
    /\ ~directory.exists
    /\ ~loading
    /\ DOMAIN WORKFLOWS = {}
    /\ args[1] = TextToVideo
    /\ pc[1] = "done"
    /\ out[1] = <<Status("Error: Workflow not found")>>
    /\ net[1] = <<>>

\* The entry i of the listing is a template file: its name ends in ".json".
IsTemplateFile(i) == EndsWith(directory.files[i].name, JsonSuffix)

\* The name entry i is registered under: its file name without extension.
BaseName(i) == StrOf(SplitextRoot(directory.files[i].name))

\* C18 as stated: after load_workflows the store holds, under its base
\* name, every template file of the directory that parses, and no entry
\* for a template file that does not.
C18_EveryParsedFileRegistered ==
    (~loading /\ directory.exists) =>
        \A i \in 1..Len(directory.files) :
            IsTemplateFile(i) =>
                IF directory.files[i].ok
                THEN /\ BaseName(i) \in DOMAIN WORKFLOWS
                     /\ WORKFLOWS[BaseName(i)] = directory.files[i].content
                ELSE BaseName(i) \notin DOMAIN WORKFLOWS

\* The template files among the first n entries that parse.
Parsed(n) == {i \in 1..n : IsTemplateFile(i) /\ directory.files[i].ok}

\* C18, amended: loading is per-file fault tolerant.  At every point of
\* the loading, and after it, the keys of the store are the base names of
\* the template files handled so far that parse, and each key holds the
\* content of the last such file with that base name in the order of the
\* listing (".json" and ".json.json" have the same base name); a file
\* that fails adds nothing and the loop goes on to the end of the listing.
C18_PerFileFaultTolerant ==
    /\ directory.exists =>
         /\ DOMAIN WORKFLOWS = {BaseName(i) : i \in Parsed(visited)}
         /\ \A i \in Parsed(visited) :
              (\A k \in Parsed(visited) : BaseName(k) = BaseName(i) => k <= i)
                 => WORKFLOWS[BaseName(i)] = directory.files[i].content
         /\ visited <= Len(directory.files)
         /\ ~loading => visited = Len(directory.files)
    /\ ~directory.exists => WORKFLOWS = EmptyStore

\* The loading is over for a directory whose first entry is a template
\* file that fails and whose second one parses: the second is registered,
\* the first is not.
C18_Witness ==
    /\ ~loading
    /\ directory.exists
    /\ Len(directory.files) = 2
    /\ IsTemplateFile(1) /\ ~directory.files[1].ok
    /\ IsTemplateFile(2) /\ directory.files[2].ok
    /\ BaseName(1) # BaseName(2)
    /\ DOMAIN WORKFLOWS = {BaseName(2)}
    /\ WORKFLOWS[BaseName(2)] = directory.files[2].content

\* C19: jobs that run at the same time never write the same local path,
\* whatever the remote file names.  Every path a job writes and yields
\* carries the job's own client_id, the uuid it drew at line 26 and sent
\* as client_id in its POST /prompt, and no two jobs have the same.
C19_DistinctLocalPaths ==
    \A j \in Jobs :
        /\ \A k \in Jobs \ {j} :
             /\ written[j] \cap written[k] = {}
             /\ (pc[j] # "idle" /\ pc[k] # "idle") => client_id[j] # client_id[k]
        /\ posted[j].sent => posted[j].client_id = client_id[j]
        /\ \A path \in written[j] :
             /\ path.some
             /\ posted[j].sent
             /\ path.client_id = posted[j].client_id
        /\ \A i \in 1..Len(out[j]) :
             out[j][i].path.some => out[j][i].path \in written[j]

\* Two jobs have each written and yielded their artifact; the remote file
\* names are the same, the local paths are not.
C19_Witness ==
    \E p1 \in written[1] : \E p2 \in written[2] :
        /\ p1.filename = p2.filename
        /\ p1 # p2
        /\ Last(out[1]).path = p1
        /\ Last(out[2]).path = p2
        /\ posted[1].client_id # posted[2].client_id

\* The seeds of the workflow wf are the draws d, place by place.
SeedsAre(wf, d) ==
    /\ SeedSlots(wf) = DOMAIN d
    /\ \A s \in SeedSlots(wf) : wf[s[1]].inputs[s[2]] = BigV(d[s][1], d[s][2])

\* C20: jobs submitted at the same time against the same template do not
\* share their seeds.  Under every interleaving the copy each job holds is
\* its own object and its seeds are the values random.randint returned to
\* that job, whatever the other job drew before or after; the seeds of
\* the stored template stay what the file held.  (Two draws may be equal
\* numbers; each job still holds its own.)
C20_OwnSeedDraw ==
    /\ \A j \in Jobs :
         Patching(j) =>
            /\ workflow[j].own
            /\ SeedsAre(workflow[j].obj, drawn[j])
            /\ posted[j].sent => SeedsAre(posted[j].prompt, drawn[j])
    /\ \A n \in DOMAIN WORKFLOWS : \A s \in SeedSlots(WORKFLOWS[n]) :
         WORKFLOWS[n][s[1]].inputs[s[2]] = LoadedTemplates[n][s[1]].inputs[s[2]]

\* Two jobs on the template "t2v" hold their configured copies at the same
\* time; their draws differ and each copy has the seed of its own draw.
C20_Witness ==
    /\ Patching(1) /\ Patching(2)
    /\ args[1].name = "t2v" /\ args[2].name = "t2v"
    /\ drawn[1] # drawn[2]
    /\ workflow[1].obj["3"].inputs["seed"] = BigV(SeedBase, 0)
    /\ workflow[2].obj["3"].inputs["seed"] = BigV(0, 1)
    /\ WORKFLOWS["t2v"]["3"].inputs["seed"] = IntV(7)

\* The node nid of the template of job j is no loader, carries a widgets
\* list, and the call assigns it once, by the key "text".
TextOnList(j, nid) ==
    /\ args[j].name \in DOMAIN WORKFLOWS
    /\ nid \in DOMAIN WORKFLOWS[args[j].name]
    /\ WORKFLOWS[args[j].name][nid].class_type \notin
         {"LoadVideo", "LoadImage", "VHS_LoadVideo"}
    /\ WORKFLOWS[args[j].name][nid].wvKind = "list"
    /\ Cardinality(Targeting(j, nid)) = 1
    /\ LastAssigned(j, nid).key = KeyS("text")

\* The list l with the value v at the 0-based position i, or l itself when
\* it has no such position.
WithAt(l, i, v) ==
    IF i < Len(l) THEN [k \in 1..Len(l) |-> IF k = i + 1 THEN v ELSE l[k]]
    ELSE l

\* C21: the key "text" on a node that is no loader and carries a widgets
\* list.  The value is written at position 2 of the list when the
\* class_type is WanVideoTextEncodeCached and at position 0 for every
\* other class_type, or nowhere when the list has no such position; a
\* named input "text" of the node is overwritten as well; nothing else of
\* the node changes.
C21_TextKeyTarget ==
    \A j \in Jobs : Patching(j) =>
        \A nid \in DOMAIN Deref(j) :
            TextOnList(j, nid) =>
                LET T == WORKFLOWS[args[j].name][nid]
                    v == LastAssigned(j, nid).val
                    pos == IF T.class_type = "WanVideoTextEncodeCached"
                           THEN 2 ELSE 0
                    got == Deref(j)[nid]
                IN  /\ got.wvList = WithAt(T.wvList, pos, v)
                    /\ got.inputs =
                         [k \in DOMAIN T.inputs |->
                            IF k = "text" THEN v ELSE T.inputs[k]]
                    /\ got = [T EXCEPT !.wvList = got.wvList, !.inputs = got.inputs]

\* The key "text" was patched on a WanVideoTextEncodeCached node with a
\* list of three and a named input "text": position 2 and the named input
\* hold the value, the positions 0 and 1 are what they were.
C21_Witness ==
    /\ pc[1] = "submit"
    /\ args[1].inputs_map = <<A("1", KeyS("text"), StrV("new"))>>
    /\ WORKFLOWS["w"]["1"].class_type = "WanVideoTextEncodeCached"
    /\ workflow[1].obj["1"].wvList = <<StrV("w0"), StrV("w1"), StrV("new")>>
    /\ "text" \in DOMAIN workflow[1].obj["1"].inputs
    /\ workflow[1].obj["1"].inputs["text"] = StrV("new")

\* C22: a job that polls holds a job id the remote assigned.  A job whose
\* POST /prompt answered 200 without a prompt_id does not enter the
\* polling loop and asks no GET /history.
C22_PollingHoldsJobId ==
    \A j \in Jobs :
        pc[j] \in {"poll", "processing", "finished", "download"} =>
            prompt_id[j] # "None"

\* C23: termination under completion.  A GET /history that answered 200
\* with an entry for the job id is the last GET /history of the job: the
\* job has left the polling loop for good, to the download or to its last
\* pair.
C23_CompletionEndsPolling ==
    \A j \in Jobs : \A h \in CallsOf(j, "history") :
        Complete(j, h) =>
            /\ \A h2 \in CallsOf(j, "history") : h2 <= h
            /\ pc[j] # "poll"

====
